---- MODULE Spec2Model ----
(***************************************************************************)
(* A model of whisper_gui: the WhisperDLL engine wrapper                   *)
(* (src/whisper_gui/core/whisper_dll.py), the WhisperGUI event handlers    *)
(* that drive it (src/whisper_gui/ui/main_window.py), the workers          *)
(* TranscriptionThread (src/whisper_gui/core/transcription_thread.py) and  *)
(* RecordingThread (src/whisper_gui/core/recording_thread.py), and the     *)
(* ModelDownloader dialog (src/whisper_gui/core/model_downloader.py).      *)
(*                                                                         *)
(* The specifications share the variables:                                 *)
(*   Spec        one WhisperDLL instance driven by arbitrary sequences of  *)
(*               load_model / free_model / transcribe /                    *)
(*               check_model_validity calls;                               *)
(*   SpecGUI     the main window: device and model selection, recording,   *)
(*               audio file selection, transcribe_audio and closeEvent;    *)
(*   SpecThread  one run of TranscriptionThread on an audio file           *)
(*               (SpecThreadLive: the same under weak fairness);           *)
(*   SpecDecode  _get_transcription_result applied to a segment table;     *)
(*   SpecLoader  the constructor of WhisperDLL in a directory of library   *)
(*               files;                                                    *)
(*   SpecRecording  RecordingThreads started and stopped by any caller;    *)
(*   SpecDownload   the ModelDownloader dialog and its download worker;    *)
(*   SpecCalls   transcribe calls of several threads on one loaded         *)
(*               WhisperDLL, split at whisper_full.                        *)
(*                                                                         *)
(* The native library is the environment.  whisper_init_from_file returns  *)
(* a handle, returns NULL or raises; whisper_full returns a code or        *)
(* raises; the default-parameter entry points return or raise;             *)
(* whisper_free is a void function (restype None, whisper_dll.py:438-439)  *)
(* and is taken to return normally, so free_model's except branch          *)
(* (whisper_dll.py:262-263) is not entered.                                *)
(***************************************************************************)
EXTENDS Integers, Sequences, FiniteSets, TLC

(***************************************************************************)
(* Bounds of the model.                                                    *)
(***************************************************************************)
MaxHandles == 2     \* distinct native context addresses
MaxSegments == 2    \* segments the native engine reports for one audio buffer
MaxRun == 3         \* length up to which a run of free_model calls is counted
MaxInstances == 2   \* WhisperDLL instances the window creates
MaxThreads == 2     \* TranscriptionThread objects alive at a time
MaxRecordings == 2  \* RecordingThread objects the window creates
MaxChunks == 1      \* audio chunks one recording reads before its loop ends
MaxDepth == 2       \* transcribe_audio calls suspended in processEvents
MaxIterations == 2  \* passes of the capture loop a max_duration argument allows
MaxCalls == 2       \* transcribe calls inside whisper_full at the same time
MaxBlocks == 2      \* blocks in the body of one download response
MaxDownloads == 2   \* downloads started in one ModelDownloader dialog

None == 0
Handles == 1..MaxHandles

(***************************************************************************)
(* Environment: outcomes of the native calls.                              *)
(***************************************************************************)
\* whisper_full_default_params_by_ref / whisper_full_default_params
ParamOutcomes == {"ok", "raise"}
PtrOutcomes == {"ptr", "null", "raise"}
\* whisper_full: a C int return code (0 = success) or an exception
FullCodes == {0, -1, 2}
FullOutcomes == [code : FullCodes, raised : {FALSE}] \cup [code : {0}, raised : {TRUE}]
\* one row of the native segment table: text is the bytes of the C string,
\* one element per byte (<<>> for NULL or an empty string); t0, t1 in ticks
Segment == [text : {<<>>, <<"h", "i">>}, t0 : {0}, t1 : {150}]
RECURSIVE SeqsUpTo(_, _)
SeqsUpTo(S, n) ==
    IF n = 0 THEN {<<>>}
    ELSE LET shorter == SeqsUpTo(S, n - 1)
         IN shorter \cup {Append(q, x) : q \in {p \in shorter : Len(p) = n - 1}, x \in S}
SegmentTables == SeqsUpTo(Segment, MaxSegments)

\* segment tables for the decoder: texts with and without a trailing blank,
\* with a line break and with an invalid byte; tick pairs up to 100 hours
DecodeTexts ==
    {<<>>, <<"h", "e", "l", "l", "o">>, <<"w", "o", "r", "l", "d">>,
     <<"h", "i", " ">>, <<"h", "\n", "i">>, <<"h", "0xFF">>}
TickPairs ==
    {<<0, 150>>, <<150, 300>>, <<61, 5999>>, <<360000, 366100>>, <<35999900, 36000000>>}
DecodeSegment == {[text |-> x, t0 |-> p[1], t1 |-> p[2]] : x \in DecodeTexts, p \in TickPairs}
DecodeTables == SeqsUpTo(DecodeSegment, MaxSegments)

\* one call across the native boundary: the entry point, the context handle
\* passed (or, for whisper_init_from_file, returned), an auxiliary integer
\* (argument count, return code or segment index) and whether it raised
NativeCall(fn, h, a, raised) == [fn |-> fn, h |-> h, a |-> a, raised |-> raised]
\* the contexts a sequence of native calls releases
Freed(natives) ==
    {natives[i].h : i \in {j \in DOMAIN natives : natives[j].fn = "whisper_free"}}

VARIABLES
    ctx,        \* WhisperDLL.ctx (None = unloaded)
    live,       \* native contexts created by whisper_init_from_file and not yet freed
    last,       \* the most recent completed call on the WhisperDLL instance
    prev,       \* the call completed before it
    run         \* the current run of consecutive free_model calls

\* the main window (specification SpecGUI)
VARIABLES
    app,                    \* "running", "closed" (closeEvent accepted) or "aborted"
    model_file_path,        \* WhisperGUI.model_file_path (NoPath = None)
    vulkan_enabled,         \* WhisperGUI.vulkan_enabled
    model_loaded,           \* WhisperGUI.model_loaded
    whisper,                \* WhisperGUI.whisper: index into wctx, or None
    wctx,                   \* ctx of every WhisperDLL instance created so far
    transcription_thread,   \* WhisperGUI.transcription_thread: index into threads, or None
    threads,                \* the TranscriptionThread objects
    file_btn,               \* file_btn.isEnabled()
    recording_thread,       \* WhisperGUI.recording_thread: index into recs, or None
    recs,                   \* the RecordingThread objects created so far
    depth,                  \* transcribe_audio calls suspended in processEvents
    ev                      \* the most recent handler of the window that ran

\* one TranscriptionThread (specification SpecThread)
VARIABLES
    audio,      \* the audio file handed to the constructor, as the wave module reads it
    tpc,        \* position of TranscriptionThread.run
    signals,    \* the signals the thread has emitted, in order
    audio_data  \* the sample buffer run builds (exact fractions num / den)

\* the native segment table read by the decoder (specification SpecDecode)
VARIABLES
    segments    \* the segments of the context after whisper_full

\* the constructor of WhisperDLL (specification SpecLoader)
VARIABLES
    files,              \* the application directory: the state of each library file
    dll_path,           \* the dll_path argument, then the path resolved (NoPath = None)
    vulkan_support,     \* WhisperDLL.vulkan_support
    extra_dlls,         \* WhisperDLL.extra_dlls: the dependencies loaded, by name
    acceleration_mode,  \* WhisperDLL.acceleration_mode
    dll,                \* WhisperDLL.dll: "unset", "loaded" or "bound"
    lpc,                \* position of __init__
    next_dll            \* index in ggml_dlls of the loop's next iteration

\* the ModelDownloader dialog and its worker (specification SpecDownload)
VARIABLES
    is_downloading, \* ModelDownloader.is_downloading
    download_btn,   \* download_btn.isEnabled()
    dialog,         \* "open" or "accepted"
    dpc,            \* position of download_model in the worker thread
    content,        \* blocks response.iter_content has still to yield
    model_file,     \* the file at model_path: whether it exists, the blocks it holds
    emitted,        \* signals.finished emissions of the current download, in order
    delivered,      \* how many of them download_finished has handled
    cancelled,      \* cancel_download took effect while the worker was running
    passed,         \* cancellation checks passed since it did
    downloads       \* downloads started so far

\* transcribe calls of several threads on one WhisperDLL (specification SpecCalls)
VARIABLES
    current_callback,   \* WhisperDLL.current_callback (None = no callback)
    inflight            \* the transcribe calls that are inside whisper_full

evars == <<ctx, last, prev, run>>
cvars == <<current_callback, inflight>>
dvars == <<is_downloading, download_btn, dialog, dpc, content, model_file, emitted,
           delivered, cancelled, passed, downloads>>
tvars == <<audio, tpc, signals, audio_data>>
lvars == <<files, dll_path, vulkan_support, extra_dlls, acceleration_mode, dll, lpc,
           next_dll>>
ovars == <<tvars, segments, lvars, dvars, cvars>>
gvars == <<app, model_file_path, vulkan_enabled, model_loaded, whisper, wctx,
           transcription_thread, threads, file_btn, recording_thread, recs, depth, ev>>
vars == <<evars, live, gvars, ovars>>

(***************************************************************************)
(* WhisperDLL.free_model                                                   *)
(***************************************************************************)
\* variant: the handle is passed to whisper_free but self.ctx is not cleared
free_model_keeps_ctx(c, lv) ==
    IF c # None
    THEN [ctx |-> c, live |-> lv \ {c},
          natives |-> <<NativeCall("whisper_free", c, 0, FALSE)>>, ret |-> TRUE]
    ELSE [ctx |-> c, live |-> lv, natives |-> <<>>, ret |-> TRUE]

\* variant: whisper_free is called without testing self.ctx
free_model_no_guard(c, lv) ==
    [ctx |-> None, live |-> lv \ {c},
     natives |-> <<NativeCall("whisper_free", c, 0, FALSE)>>, ret |-> TRUE]

free_model(c, lv) ==
    IF c # None
    THEN [ctx |-> None, live |-> lv \ {c},
          natives |-> <<NativeCall("whisper_free", c, 0, FALSE)>>, ret |-> TRUE]
    ELSE [ctx |-> c, live |-> lv, natives |-> <<>>, ret |-> TRUE]

(***************************************************************************)
(* WhisperDLL.load_model.  exists = os.path.exists(model_path);            *)
(* init = outcome of whisper_init_from_file: [h, raised].                  *)
(* err is "" on success (return True), else the reason of the raised       *)
(* exception: NotFound (line 238), InitFailed (line 248), NativeException. *)
(* load_model_try is the try/except block entered with the result f1 of    *)
(* the leading free_model call.                                            *)
(***************************************************************************)
\* variant: the handle returned by whisper_init_from_file is not tested for NULL
load_model_try_no_null_check(f1, exists, init) ==
    LET call == NativeCall("whisper_init_from_file", init.h, 0, init.raised)
    IN  IF ~exists
        THEN LET f2 == free_model(f1.ctx, f1.live)
             IN [ctx |-> f2.ctx, live |-> f2.live,
                 natives |-> f1.natives \o f2.natives, err |-> "NotFound"]
        ELSE IF init.raised
        THEN LET f2 == free_model(f1.ctx, f1.live)
             IN [ctx |-> f2.ctx, live |-> f2.live,
                 natives |-> f1.natives \o <<call>> \o f2.natives,
                 err |-> "NativeException"]
        ELSE [ctx |-> init.h,
              live |-> IF init.h # None THEN f1.live \cup {init.h} ELSE f1.live,
              natives |-> f1.natives \o <<call>>, err |-> ""]

load_model_try(f1, exists, init) ==
    LET call == NativeCall("whisper_init_from_file", init.h, 0, init.raised)
    IN  IF ~exists
        THEN LET f2 == free_model(f1.ctx, f1.live)
             IN [ctx |-> f2.ctx, live |-> f2.live,
                 natives |-> f1.natives \o f2.natives, err |-> "NotFound"]
        ELSE IF init.raised
        THEN LET f2 == free_model(f1.ctx, f1.live)
             IN [ctx |-> f2.ctx, live |-> f2.live,
                 natives |-> f1.natives \o <<call>> \o f2.natives,
                 err |-> "NativeException"]
        ELSE LET c2 == init.h
                 lv2 == IF init.h # None THEN f1.live \cup {init.h} ELSE f1.live
             IN IF c2 = None
                THEN LET f2 == free_model(c2, lv2)
                     IN [ctx |-> f2.ctx, live |-> f2.live,
                         natives |-> f1.natives \o <<call>> \o f2.natives,
                         err |-> "InitFailed"]
                ELSE [ctx |-> c2, live |-> lv2,
                      natives |-> f1.natives \o <<call>>, err |-> ""]

\* variant: the model already loaded is not freed before the new one is loaded
load_model_no_free(c, lv, exists, init) ==
    load_model_try([ctx |-> c, live |-> lv, natives |-> <<>>, ret |-> TRUE], exists, init)

\* variant: the path is handed to whisper_init_from_file without the existence test
load_model_no_exists_check(c, lv, exists, init) ==
    load_model_try(free_model(c, lv), TRUE, init)

load_model(c, lv, exists, init) ==
    load_model_try(free_model(c, lv), exists, init)

\* outcomes whisper_init_from_file can have when the contexts in lv are live:
\* a fresh (or reused) address, NULL, or an exception
InitOutcomes(lv) ==
    [h : Handles \ lv, raised : {FALSE}] \cup [h : {None}, raised : {FALSE, TRUE}]

(***************************************************************************)
(* Strings are sequences of one-character strings.  "0xFF" stands for a    *)
(* byte that is not valid UTF-8 and "U+FFFD" for the replacement character *)
(* bytes.decode('utf-8', errors='replace') puts in its place.              *)
(***************************************************************************)
Digit(d) == <<"0", "1", "2", "3", "4", "5", "6", "7", "8", "9">>[d + 1]
RECURSIVE Decimal(_)
Decimal(n) == IF n < 10 THEN <<Digit(n)>> ELSE Append(Decimal(n \div 10), Digit(n % 10))
\* the format specification 02d applied to n >= 0
fmt02d(n) == IF n < 10 THEN <<"0">> \o Decimal(n) ELSE Decimal(n)

decode(b) == [i \in 1..Len(b) |-> IF b[i] = "0xFF" THEN "U+FFFD" ELSE b[i]]

Whitespace == {" ", "\n"}
RECURSIVE rstrip(_)
rstrip(str) ==
    IF str # <<>> /\ str[Len(str)] \in Whitespace
    THEN rstrip(SubSeq(str, 1, Len(str) - 1))
    ELSE str
RECURSIVE lstrip(_)
lstrip(str) ==
    IF str # <<>> /\ str[1] \in Whitespace THEN lstrip(Tail(str)) ELSE str
strip(str) == lstrip(rstrip(str))

(***************************************************************************)
(* WhisperDLL._get_transcription_result: the native calls of the loop and  *)
(* the text it builds (a segment with a falsy text appends nothing).       *)
(***************************************************************************)
RECURSIVE SegmentCalls(_, _, _)
SegmentCalls(c, n, i) ==
    IF i >= n THEN <<>>
    ELSE << NativeCall("whisper_full_get_segment_text", c, i, FALSE),
            NativeCall("whisper_full_get_segment_t0", c, i, FALSE),
            NativeCall("whisper_full_get_segment_t1", c, i, FALSE) >>
         \o SegmentCalls(c, n, i + 1)

\* variant: the minutes are not reduced modulo the hour
hms_minutes_not_reduced(t) ==
    LET t_sec == t \div 100
    IN  [hour |-> t_sec \div 3600, min |-> t_sec \div 60, sec |-> t_sec % 60]

\* lines 395-405: hours, minutes and seconds of a tick count
hms(t) ==
    LET t_sec == t \div 100
    IN  [hour |-> t_sec \div 3600, min |-> (t_sec % 3600) \div 60, sec |-> t_sec % 60]

\* line 408
time_str(t0, t1) ==
    fmt02d(hms(t0).hour) \o <<":">> \o fmt02d(hms(t0).min) \o <<":">>
        \o fmt02d(hms(t0).sec) \o <<" ", "-", ">", " ">>
        \o fmt02d(hms(t1).hour) \o <<":">> \o fmt02d(hms(t1).min) \o <<":">>
        \o fmt02d(hms(t1).sec)

\* variant: a line is appended for every segment, whatever its text
RECURSIVE SegmentLines_no_text_test(_, _)
SegmentLines_no_text_test(segs, i) ==
    IF i > Len(segs) THEN <<>>
    ELSE time_str(segs[i].t0, segs[i].t1) \o <<" ">> \o decode(segs[i].text) \o <<"\n">>
         \o SegmentLines_no_text_test(segs, i + 1)

\* lines 386-412: the value of text after the iterations i.. of the loop
RECURSIVE SegmentLines(_, _)
SegmentLines(segs, i) ==
    IF i > Len(segs) THEN <<>>
    ELSE (IF segs[i].text # <<>>
          THEN time_str(segs[i].t0, segs[i].t1) \o <<" ">> \o decode(segs[i].text)
               \o <<"\n">>
          ELSE <<>>)
         \o SegmentLines(segs, i + 1)

\* variant: the text is returned as built, without strip()
get_transcription_result_no_strip(c, segs) ==
    [natives |-> <<NativeCall("whisper_full_n_segments", c, Len(segs), FALSE)>>
                 \o SegmentCalls(c, Len(segs), 0),
     text |-> SegmentLines(segs, 1)]

get_transcription_result(c, segs) ==
    [natives |-> <<NativeCall("whisper_full_n_segments", c, Len(segs), FALSE)>>
                 \o SegmentCalls(c, Len(segs), 0),
     text |-> strip(SegmentLines(segs, 1))]

(***************************************************************************)
(* WhisperDLL._transcribe_with_ptr                                         *)
(***************************************************************************)
\* variant: the return code of whisper_full is not tested
transcribe_with_ptr_unchecked(c, full, segs) ==
    LET call == NativeCall("whisper_full", c, full.code, full.raised)
        r == get_transcription_result(c, segs)
    IN  IF full.raised
        THEN [natives |-> <<call>>, err |-> "NativeException", code |-> 0, text |-> <<>>]
        ELSE [natives |-> <<call>> \o r.natives, err |-> "", code |-> 0, text |-> r.text]

transcribe_with_ptr(c, full, segs) ==
    LET call == NativeCall("whisper_full", c, full.code, full.raised)
        r == get_transcription_result(c, segs)
    IN  IF full.raised
        THEN [natives |-> <<call>>, err |-> "NativeException", code |-> 0, text |-> <<>>]
        ELSE IF full.code # 0
        THEN [natives |-> <<call>>, err |-> "NativeCallFailed", code |-> full.code,
              text |-> <<>>]
        ELSE [natives |-> <<call>> \o r.natives, err |-> "", code |-> 0, text |-> r.text]

(***************************************************************************)
(* WhisperDLL.transcribe.  p1, p2: outcomes of the by-reference default    *)
(* parameter call with and without the strategy argument; p3: outcome of   *)
(* the pointer-returning call; full: outcome of whisper_full; segs: the    *)
(* native segment table after the call.  err is "" when a transcript is    *)
(* returned; a NativeCallFailed error carries the native code (line 358).  *)
(* transcribe_try is the try/except block of lines 287-364.                *)
(***************************************************************************)
\* variant: the pointer returned by whisper_full_default_params is not tested
transcribe_try_null_unchecked(c, p1, p2, p3, full, segs) ==
    LET by_ref2 == NativeCall("whisper_full_default_params_by_ref", None, 2, p1 = "raise")
        by_ref1 == NativeCall("whisper_full_default_params_by_ref", None, 1, p2 = "raise")
        by_ptr == NativeCall("whisper_full_default_params", None, 0, p3 = "raise")
        tried == IF p1 = "ok" THEN <<by_ref2>> ELSE <<by_ref2, by_ref1>>
        call == NativeCall("whisper_full", c, full.code, full.raised)
        r == get_transcription_result(c, segs)
    IN  IF p1 = "raise" /\ p2 = "raise"
        THEN IF p3 = "raise"
             THEN [natives |-> tried \o <<by_ptr>>, err |-> "NativeException",
                   code |-> 0, text |-> <<>>]
             ELSE LET t == transcribe_with_ptr(c, full, segs)
                  IN [natives |-> tried \o <<by_ptr>> \o t.natives,
                      err |-> IF p3 = "null" /\ t.err = "" THEN "NullParams" ELSE t.err,
                      code |-> t.code, text |-> t.text]
        ELSE IF full.raised
        THEN [natives |-> tried \o <<call>>, err |-> "NativeException",
              code |-> 0, text |-> <<>>]
        ELSE IF full.code # 0
        THEN [natives |-> tried \o <<call>>, err |-> "NativeCallFailed",
              code |-> full.code, text |-> <<>>]
        ELSE [natives |-> tried \o <<call>> \o r.natives, err |-> "", code |-> 0,
              text |-> r.text]

transcribe_try(c, p1, p2, p3, full, segs) ==
    LET by_ref2 == NativeCall("whisper_full_default_params_by_ref", None, 2, p1 = "raise")
        by_ref1 == NativeCall("whisper_full_default_params_by_ref", None, 1, p2 = "raise")
        by_ptr == NativeCall("whisper_full_default_params", None, 0, p3 = "raise")
        tried == IF p1 = "ok" THEN <<by_ref2>> ELSE <<by_ref2, by_ref1>>
        call == NativeCall("whisper_full", c, full.code, full.raised)
        r == get_transcription_result(c, segs)
    IN  IF p1 = "raise" /\ p2 = "raise"
        THEN IF p3 = "raise"
             THEN [natives |-> tried \o <<by_ptr>>, err |-> "NativeException",
                   code |-> 0, text |-> <<>>]
             ELSE IF p3 = "null"
             THEN [natives |-> tried \o <<by_ptr>>, err |-> "NullParams",
                   code |-> 0, text |-> <<>>]
             ELSE LET t == transcribe_with_ptr(c, full, segs)
                  IN [natives |-> tried \o <<by_ptr>> \o t.natives, err |-> t.err,
                      code |-> t.code, text |-> t.text]
        ELSE IF full.raised
        THEN [natives |-> tried \o <<call>>, err |-> "NativeException",
              code |-> 0, text |-> <<>>]
        ELSE IF full.code # 0
        THEN [natives |-> tried \o <<call>>, err |-> "NativeCallFailed",
              code |-> full.code, text |-> <<>>]
        ELSE [natives |-> tried \o <<call>> \o r.natives, err |-> "", code |-> 0,
              text |-> r.text]

\* variant: the try block is entered without testing self.ctx
transcribe_no_ctx_check(c, p1, p2, p3, full, segs) ==
    [ctx |-> c] @@ transcribe_try(c, p1, p2, p3, full, segs)

\* variant: the except branch releases the model, as load_model's does
transcribe_frees_on_error(c, p1, p2, p3, full, segs) ==
    LET t == transcribe_try(c, p1, p2, p3, full, segs)
    IN  IF c = None
        THEN [natives |-> <<>>, err |-> "NotLoaded", code |-> 0, text |-> <<>>, ctx |-> c]
        ELSE IF t.err = "" THEN [ctx |-> c] @@ t
        ELSE [ctx |-> None] @@
             [t EXCEPT !.natives = @ \o <<NativeCall("whisper_free", c, 0, FALSE)>>]

\* ctx is self.ctx when the call ends: no statement of transcribe assigns it
transcribe(c, p1, p2, p3, full, segs) ==
    IF c = None
    THEN [natives |-> <<>>, err |-> "NotLoaded", code |-> 0, text |-> <<>>, ctx |-> c]
    ELSE [ctx |-> c] @@ transcribe_try(c, p1, p2, p3, full, segs)

(***************************************************************************)
(* WhisperDLL.check_model_validity.  exists = os.path.exists(model_path),  *)
(* file_size = os.path.getsize(model_path).  err is "" when True is        *)
(* returned, else the reason of the exception: NotFound (line 271) or      *)
(* TooSmall (line 276).                                                    *)
(***************************************************************************)
MinModelBytes == 1024
FileSizes == {0, MinModelBytes - 1, MinModelBytes, MinModelBytes + 1}

\* variant: the size of the file is not tested
check_model_validity_no_size_test(c, exists, file_size) ==
    IF ~exists THEN [ctx |-> c, natives |-> <<>>, err |-> "NotFound"]
    ELSE [ctx |-> c, natives |-> <<>>, err |-> ""]

check_model_validity(c, exists, file_size) ==
    IF ~exists THEN [ctx |-> c, natives |-> <<>>, err |-> "NotFound"]
    ELSE IF file_size < MinModelBytes THEN [ctx |-> c, natives |-> <<>>, err |-> "TooSmall"]
    ELSE [ctx |-> c, natives |-> <<>>, err |-> ""]

(***************************************************************************)
(* The record kept of a completed WhisperDLL call.                         *)
(***************************************************************************)
CallRecord(op, exists, c0, c1, natives, err, code, text) ==
    [op |-> op, exists |-> exists, ctx0 |-> c0, ctx1 |-> c1, natives |-> natives,
     err |-> err, code |-> code, text |-> text]

NoCall == CallRecord("none", FALSE, None, None, <<>>, "", 0, <<>>)
\* what a later call needs to know of the call before it
Summary(rec) == [op |-> rec.op, err |-> rec.err, ctx1 |-> rec.ctx1]

NoRun == [n |-> 0, frees |-> 0, loaded |-> FALSE]
Min(a, b) == IF a < b THEN a ELSE b

(***************************************************************************)
(* The main window.                                                        *)
(***************************************************************************)
NoPath == ""
ModelPaths == {"ggml-base.bin", "ggml-tiny.bin"}

\* the signals class TranscriptionThread declares
TranscriptionThreadSignals_with_percent == {"finished", "error", "progress", "progress_percent"}

TranscriptionThreadSignals == {"finished", "error", "progress"}

\* the signals transcribe_audio connects, in order, before start()
ConnectedSignals == <<"finished", "progress", "progress_percent", "error">>

\* the attribute lookups of lines 443-446 all succeed
Wired == \A i \in 1..Len(ConnectedSignals) : ConnectedSignals[i] \in TranscriptionThreadSignals

EngineCall(op, w, err) == [op |-> op, w |-> w, err |-> err]
NoThread == [w |-> None, st |-> "free"]
\* WhisperDLL instances on which a started TranscriptionThread has not finished
Busy == {threads[t].w : t \in {u \in 1..MaxThreads : threads[u].st = "running"}}
Event(name, calls, created, started) ==
    [name |-> name, calls |-> calls, busy |-> Busy, created |-> created,
     started |-> started]

(***************************************************************************)
(* WhisperGUI.unload_model, on the window state (w = self.whisper, cs =    *)
(* the instances' ctx, lv = live contexts, ml = self.model_loaded).        *)
(***************************************************************************)
\* variant: the flag is cleared but free_model is not called
unload_model_no_free(w, cs, lv, ml) ==
    IF w # None /\ cs[w] # None
    THEN [wctx |-> cs, live |-> lv, model_loaded |-> FALSE, calls |-> <<>>]
    ELSE [wctx |-> cs, live |-> lv, model_loaded |-> ml, calls |-> <<>>]

unload_model(w, cs, lv, ml) ==
    IF w # None /\ cs[w] # None
    THEN LET f == free_model(cs[w], lv)
         IN [wctx |-> [cs EXCEPT ![w] = f.ctx], live |-> f.live, model_loaded |-> FALSE,
             calls |-> <<EngineCall("free_model", w, "")>>]
    ELSE [wctx |-> cs, live |-> lv, model_loaded |-> ml, calls |-> <<>>]

NoUnload == [wctx |-> wctx, live |-> live, model_loaded |-> model_loaded, calls |-> <<>>]

(***************************************************************************)
(* WhisperGUI.on_device_selected.  show_model_selection at its end opens a *)
(* modal dialog; the dialog's answer arrives as OnModelSelected, or never. *)
(***************************************************************************)
OnDeviceSelected ==
    /\ app = "running"
    /\ \E use_gpu \in BOOLEAN :
        LET u == IF model_loaded /\ whisper # None
                 THEN unload_model(whisper, wctx, live, model_loaded)
                 ELSE NoUnload
        IN  /\ wctx' = u.wctx
            /\ live' = u.live
            /\ vulkan_enabled' = use_gpu
            /\ whisper' = None
            /\ model_loaded' = FALSE
            /\ ev' = Event("on_device_selected", u.calls, None, FALSE)
    /\ UNCHANGED <<evars, ovars, app, model_file_path, transcription_thread, threads, file_btn,
                   recording_thread, recs, depth>>

(***************************************************************************)
(* WhisperGUI.on_model_selected                                            *)
(***************************************************************************)
OnModelSelected ==
    /\ app = "running"
    /\ \E model_path \in ModelPaths :
        LET u == IF model_loaded /\ whisper # None /\ wctx[whisper] # None
                 THEN unload_model(whisper, wctx, live, model_loaded)
                 ELSE NoUnload
        IN  /\ wctx' = u.wctx
            /\ live' = u.live
            /\ model_file_path' = model_path
            /\ file_btn' = TRUE
            /\ model_loaded' = FALSE
            /\ ev' = Event("on_model_selected", u.calls, None, FALSE)
    /\ UNCHANGED <<evars, ovars, app, vulkan_enabled, whisper, transcription_thread, threads,
                   recording_thread, recs, depth>>

(***************************************************************************)
(* WhisperGUI.transcribe_audio, lines 437-447: the TranscriptionThread is  *)
(* constructed on instance w, its signals are connected and it is started. *)
(* An unstarted thread object that loses its last reference is collected.  *)
(* A failed attribute lookup ends the handler with an exception: the       *)
(* process aborts (PyQt's default) or, when hook says an exception hook is *)
(* installed, the event loop goes on.  calls are the engine calls the      *)
(* handler made before.                                                    *)
(***************************************************************************)
start_transcription(name, w, calls, hook) ==
    \E t \in 1..MaxThreads :
        /\ threads[t].st = "free"
        /\ \A u \in 1..(t - 1) : threads[u].st # "free"
        /\ LET old == transcription_thread
               kept == IF old # None /\ threads[old].st = "created"
                       THEN [threads EXCEPT ![old] = NoThread]
                       ELSE threads
           IN  /\ transcription_thread' = t
               /\ threads' = [kept EXCEPT ![t] =
                                 [w |-> w, st |-> IF Wired THEN "running" ELSE "created"]]
               /\ app' = IF Wired \/ hook THEN app ELSE "aborted"
               /\ ev' = Event(name, calls, t, Wired)

(***************************************************************************)
(* WhisperGUI.transcribe_audio, lines 412-435 after processEvents: the     *)
(* outcome of self.whisper.load_model(self.model_file_path) on the window  *)
(* state; proceed tells whether the handler goes on to line 437.           *)
(***************************************************************************)
\* variant: the except clause does not return
load_step_no_return(w, cs, lv, ml, exists, init) ==
    IF w = None
    THEN [wctx |-> cs, live |-> lv, model_loaded |-> ml, calls |-> <<>>, proceed |-> TRUE]
    ELSE LET r == load_model(cs[w], lv, exists, init)
         IN [wctx |-> [cs EXCEPT ![w] = r.ctx], live |-> r.live,
             model_loaded |-> IF r.err = "" THEN TRUE ELSE ml,
             calls |-> <<EngineCall("load_model", w, r.err)>>,
             proceed |-> TRUE]

load_step(w, cs, lv, ml, exists, init) ==
    IF w = None
    THEN [wctx |-> cs, live |-> lv, model_loaded |-> ml, calls |-> <<>>, proceed |-> FALSE]
    ELSE LET r == load_model(cs[w], lv, exists, init)
         IN [wctx |-> [cs EXCEPT ![w] = r.ctx], live |-> r.live,
             model_loaded |-> IF r.err = "" THEN TRUE ELSE ml,
             calls |-> <<EngineCall("load_model", w, r.err)>>,
             proceed |-> r.err = ""]

(***************************************************************************)
(* WhisperGUI.transcribe_audio up to QApplication.processEvents() (line    *)
(* 420), or to its end when the model is already loaded.  It constrains    *)
(* app, whisper, wctx, live, model_loaded, the threads, depth and ev; the  *)
(* calling handler constrains the rest.                                    *)
(***************************************************************************)
transcribe_audio(name) ==
    IF model_file_path = NoPath
    THEN /\ ev' = Event(name, <<>>, None, FALSE)
         /\ UNCHANGED <<app, whisper, wctx, live, model_loaded, transcription_thread,
                        threads, depth>>
    ELSE \E dll_ok \in BOOLEAN, hook \in BOOLEAN :
        IF whisper = None /\ ~dll_ok
        THEN \* initialize_whisper returned False
             /\ ~hook
             /\ ev' = Event(name, <<>>, None, FALSE)
             /\ UNCHANGED <<app, whisper, wctx, live, model_loaded,
                            transcription_thread, threads, depth>>
        ELSE /\ whisper = None => Len(wctx) < MaxInstances
             /\ whisper # None => dll_ok
             /\ LET w == IF whisper = None THEN Len(wctx) + 1 ELSE whisper
                    cs == IF whisper = None THEN Append(wctx, None) ELSE wctx
                IN  /\ whisper' = w
                    /\ IF ~model_loaded \/ cs[w] = None
                       THEN LET u == IF model_loaded
                                     THEN unload_model(w, cs, live, model_loaded)
                                     ELSE [wctx |-> cs, live |-> live,
                                           model_loaded |-> model_loaded, calls |-> <<>>]
                            IN  /\ ~hook
                                /\ depth < MaxDepth
                                /\ depth' = depth + 1
                                /\ wctx' = u.wctx
                                /\ live' = u.live
                                /\ model_loaded' = u.model_loaded
                                /\ ev' = Event(name, u.calls, None, FALSE)
                                /\ UNCHANGED <<app, transcription_thread, threads>>
                       ELSE /\ Wired => ~hook
                            /\ wctx' = cs
                            /\ start_transcription(name, w, <<>>, hook)
                            /\ UNCHANGED <<live, model_loaded, depth>>

\* transcribe_audio from line 423 on, when processEvents has returned
TranscribeAudioResume ==
    /\ app # "aborted"
    /\ depth > 0
    /\ depth' = depth - 1
    /\ \E exists \in BOOLEAN, hook \in BOOLEAN,
          init \in InitOutcomes(live \ (IF whisper = None THEN {} ELSE {wctx[whisper]})) :
        LET r == load_step(whisper, wctx, live, model_loaded, exists, init)
        IN  /\ wctx' = r.wctx
            /\ live' = r.live
            /\ model_loaded' = r.model_loaded
            /\ whisper = None => (~exists /\ init = [h |-> None, raised |-> FALSE])
            /\ IF r.proceed
               THEN /\ Wired => ~hook
                    /\ start_transcription("transcribe_audio", whisper, r.calls, hook)
               ELSE /\ ~hook
                    /\ ev' = Event("transcribe_audio", r.calls, None, FALSE)
                    /\ UNCHANGED <<app, transcription_thread, threads>>
    /\ UNCHANGED <<evars, ovars, model_file_path, vulkan_enabled, whisper, file_btn,
                   recording_thread, recs>>

(***************************************************************************)
(* WhisperGUI.select_audio_file with a file chosen in the dialog           *)
(***************************************************************************)
SelectAudioFile ==
    /\ app = "running"
    /\ file_btn
    /\ model_file_path # NoPath
    /\ transcribe_audio("select_audio_file")
    /\ UNCHANGED <<evars, ovars, model_file_path, vulkan_enabled, file_btn, recording_thread, recs>>

(***************************************************************************)
(* RecordingThread: the constructor, run() up to the capture loop, one     *)
(* pass of the loop, and stop().  pc: "new" (started, run not entered),    *)
(* "loop", "emitted" (finished emitted, slot not yet run), "handled".      *)
(* max_i is int(RATE / CHUNK * self.max_duration), temp_file the path run  *)
(* obtains from mkstemp (None before), finished the arguments of the       *)
(* finished signals emitted; stopped and after record whether stop() has   *)
(* been called and the chunks read since its first call.                   *)
(***************************************************************************)
RecordingThread(max_i) ==
    [pc |-> "new", is_recording |-> FALSE, i |-> 0, max_i |-> max_i, temp_file |-> None,
     finished |-> <<>>, stopped |-> FALSE, after |-> 0]

RecordingRun(r) ==
    /\ app # "aborted"
    /\ recs[r].pc = "new"
    /\ recs' = [recs EXCEPT ![r].pc = "loop", ![r].is_recording = TRUE, ![r].temp_file = r]
    /\ UNCHANGED <<evars, ovars, live, app, model_file_path, vulkan_enabled, model_loaded, whisper,
                   wctx, transcription_thread, threads, file_btn, recording_thread,
                   depth, ev>>

RecordingLoop(r) ==
    /\ app # "aborted"
    /\ recs[r].pc = "loop"
    /\ recs' = IF recs[r].i >= recs[r].max_i \/ ~recs[r].is_recording
               THEN [recs EXCEPT ![r].pc = "emitted", ![r].is_recording = FALSE,
                                 ![r].finished = Append(@, recs[r].temp_file)]
               ELSE [recs EXCEPT ![r].i = @ + 1,
                                 ![r].after = IF recs[r].stopped THEN @ + 1 ELSE @]
    /\ UNCHANGED <<evars, ovars, live, app, model_file_path, vulkan_enabled, model_loaded, whisper,
                   wctx, transcription_thread, threads, file_btn, recording_thread,
                   depth, ev>>

stop(rs, r) == [rs EXCEPT ![r].is_recording = FALSE, ![r].stopped = TRUE]

(***************************************************************************)
(* WhisperGUI.toggle_recording                                             *)
(***************************************************************************)
ToggleRecording ==
    /\ app = "running"
    /\ model_file_path # NoPath
    /\ IF recording_thread # None /\ recs[recording_thread].is_recording
       THEN /\ recs' = stop(recs, recording_thread)
            /\ file_btn' = TRUE
            /\ UNCHANGED recording_thread
       ELSE /\ Len(recs) < MaxRecordings
            /\ file_btn' = FALSE
            /\ recs' = Append(recs, RecordingThread(MaxChunks))
            /\ recording_thread' = Len(recs) + 1
    /\ ev' = Event("toggle_recording", <<>>, None, FALSE)
    /\ UNCHANGED <<evars, ovars, live, app, model_file_path, vulkan_enabled, model_loaded, whisper,
                   wctx, transcription_thread, threads, depth>>

(***************************************************************************)
(* WhisperGUI.on_recording_finished                                        *)
(***************************************************************************)
OnRecordingFinished(r) ==
    /\ app = "running"
    /\ recs[r].pc = "emitted"
    /\ recs' = [recs EXCEPT ![r].pc = "handled"]
    /\ file_btn' = TRUE
    /\ transcribe_audio("on_recording_finished")
    /\ UNCHANGED <<evars, ovars, model_file_path, vulkan_enabled, recording_thread>>

(***************************************************************************)
(* WhisperGUI.closeEvent                                                   *)
(***************************************************************************)
CloseEvent ==
    /\ app = "running"
    /\ LET u == unload_model(whisper, wctx, live, model_loaded)
       IN  /\ wctx' = u.wctx
           /\ live' = u.live
           /\ model_loaded' = u.model_loaded
           /\ ev' = Event("closeEvent", u.calls, None, FALSE)
    /\ recs' = IF recording_thread # None /\ recs[recording_thread].is_recording
               THEN stop(recs, recording_thread)
               ELSE recs
    /\ app' = "closed"
    /\ UNCHANGED <<evars, ovars, model_file_path, vulkan_enabled, whisper, transcription_thread,
                   threads, file_btn, recording_thread, depth>>

(***************************************************************************)
(* WhisperDLL.__init__ (whisper_dll.py:160-228).  The application          *)
(* directory is the environment: a library file is "absent", "loads",      *)
(* is "bad" (ctypes.CDLL raises) or, for the main library, has "nosymbols" *)
(* (it loads but lacks an entry point initialize binds).                   *)
(***************************************************************************)
possible_names == <<"whisper.dll", "whisper_cpp.dll", "whisper-cpp.dll", "whisperdll.dll">>
ggml_dlls(vs) ==
    IF vs THEN <<"ggml.dll", "ggml-base.dll", "ggml-cpu.dll", "ggml-vulkan.dll">>
    ELSE <<"ggml.dll", "ggml-base.dll", "ggml-cpu.dll">>
Range(q) == {q[i] : i \in DOMAIN q}
DependencyNames == Range(ggml_dlls(TRUE))
MainNames == Range(possible_names)
\* directories with at most one main library file
Directories ==
    {f \in [DependencyNames \cup MainNames -> {"absent", "loads", "bad", "nosymbols"}] :
        /\ \A d \in DependencyNames : f[d] # "nosymbols"
        /\ \A m1, m2 \in MainNames : (f[m1] # "absent" /\ f[m2] # "absent") => m1 = m2}
EmptyDirectory == [n \in DependencyNames \cup MainNames |-> "absent"]

\* lines 176-190: the path of the main library, NoPath when line 190 raises
resolve(path, f) ==
    IF path # NoPath THEN path
    ELSE IF f["whisper.dll"] # "absent" THEN "whisper.dll"
    ELSE IF \E i \in DOMAIN possible_names : f[possible_names[i]] # "absent"
    THEN possible_names[CHOOSE i \in DOMAIN possible_names :
                           /\ f[possible_names[i]] # "absent"
                           /\ \A j \in 1..(i - 1) : f[possible_names[j]] = "absent"]
    ELSE NoPath

\* lines 205-215: one iteration of the loop over ggml_dlls
\* variant: the mode is set when the file exists, before it is loaded
load_dependency_mode_before_load(dll_name, f, vs, extra, mode) ==
    IF f[dll_name] = "absent"
    THEN [extra_dlls |-> extra, acceleration_mode |-> mode, raised |-> FALSE]
    ELSE [extra_dlls |-> IF f[dll_name] = "loads" THEN Append(extra, dll_name) ELSE extra,
          acceleration_mode |-> IF dll_name = "ggml-vulkan.dll" /\ vs
                                THEN "Vulkan GPU" ELSE mode,
          raised |-> FALSE]

\* variant: an exception of ctypes.CDLL is not caught in the loop
load_dependency_no_except(dll_name, f, vs, extra, mode) ==
    IF f[dll_name] = "absent"
    THEN [extra_dlls |-> extra, acceleration_mode |-> mode, raised |-> FALSE]
    ELSE IF f[dll_name] = "loads"
    THEN [extra_dlls |-> Append(extra, dll_name),
          acceleration_mode |-> IF dll_name = "ggml-vulkan.dll" /\ vs
                                THEN "Vulkan GPU" ELSE mode,
          raised |-> FALSE]
    ELSE [extra_dlls |-> extra, acceleration_mode |-> mode, raised |-> TRUE]

\* raised: whether the iteration leaves the loop with an exception
load_dependency(dll_name, f, vs, extra, mode) ==
    IF f[dll_name] = "absent"
    THEN [extra_dlls |-> extra, acceleration_mode |-> mode, raised |-> FALSE]
    ELSE IF f[dll_name] = "loads"
    THEN [extra_dlls |-> Append(extra, dll_name),
          acceleration_mode |-> IF dll_name = "ggml-vulkan.dll" /\ vs
                                THEN "Vulkan GPU" ELSE mode,
          raised |-> FALSE]
    ELSE [extra_dlls |-> extra, acceleration_mode |-> mode, raised |-> FALSE]

IdleLoader ==
    /\ files = EmptyDirectory
    /\ dll_path = NoPath
    /\ vulkan_support = TRUE
    /\ extra_dlls = <<>>
    /\ acceleration_mode = "CPU"
    /\ dll = "unset"
    /\ lpc = "idle"
    /\ next_dll = 1

(***************************************************************************)
(* TranscriptionThread (src/whisper_gui/core/transcription_thread.py).     *)
(* The wave module is the environment: wave.open and readframes raise      *)
(* (readable = FALSE) or deliver a sample width and a channel count of at  *)
(* least 1.                                                                *)
(***************************************************************************)
MaxSampleWidth == 3     \* bytes per sample the wave module reports
MaxChannels == 3        \* channels the wave module reports

Extensions == {".wav", ".WAV", ".mp3"}
lower(e) == IF e = ".WAV" THEN ".wav" ELSE e
MaxFrames == 1          \* frames of the audio file

\* the sample values a file holds, and their bytes in the file: 16-bit
\* samples are little-endian two's complement, 8-bit samples unsigned
Samples16 == {-32768, -1, 32767}
Samples8 == {0, 128, 255}
SampleBytes(width, v) ==
    IF width = 2
    THEN LET u == IF v < 0 THEN v + 65536 ELSE v IN <<u % 256, u \div 256>>
    ELSE IF width = 1 THEN <<v>>
    ELSE [i \in 1..width |-> 0]
RECURSIVE PCM(_, _)
PCM(width, samples) ==
    IF samples = <<>> THEN <<>>
    ELSE SampleBytes(width, Head(samples)) \o PCM(width, Tail(samples))
\* the frames of files of up to MaxFrames frames; the samples of a file
\* whose format run rejects (lines 57, 63) never reach audio_data and are 0
Frames(width, channels) ==
    LET values == IF channels > 2 THEN {0}
                  ELSE IF width = 2 THEN Samples16 ELSE IF width = 1 THEN Samples8 ELSE {0}
    IN  {PCM(width, q) : q \in UNION {[1..(n * channels) -> values] : n \in 0..MaxFrames}}
AudioFiles ==
    UNION {{[ext |-> e, readable |-> r, sample_width |-> w, channels |-> c, frames |-> f] :
               e \in Extensions, r \in BOOLEAN, f \in Frames(w, c)} :
           w \in 1..MaxSampleWidth, c \in 1..MaxChannels}
NoAudio ==
    [ext |-> "", readable |-> FALSE, sample_width |-> 0, channels |-> 0, frames |-> <<>>]

\* variant: the value of line 82 is emitted at line 77
ProgressMarks_early_100 ==
    [start |-> 10, wav |-> 20, read |-> 40, converted |-> 60, loaded |-> 100,
     done |-> 100]

\* the values run passes to progress.emit, by the place of the call
ProgressMarks ==
    [start |-> 10, wav |-> 20, read |-> 40, converted |-> 60, loaded |-> 80,
     done |-> 100]

Signal(sig, v) == [sig |-> sig, v |-> v]

\* variant: a channel count above 2 is not rejected
convert_any_channels(a) ==
    IF a.sample_width \notin {1, 2} THEN "UnsupportedAudioFormat"
    ELSE ""

\* lines 52-63: conversion of the frames read, "" when audio_data is produced
convert(a) ==
    IF a.sample_width \notin {1, 2} THEN "UnsupportedAudioFormat"
    ELSE IF a.channels > 2 THEN "UnsupportedAudioFormat"
    ELSE ""

\* np.frombuffer(frames, dtype=np.int16) and dtype=np.uint8
RECURSIVE frombuffer_int16(_)
frombuffer_int16(bytes) ==
    IF Len(bytes) < 2 THEN <<>>
    ELSE LET u == bytes[1] + 256 * bytes[2]
         IN <<IF u >= 32768 THEN u - 65536 ELSE u>>
            \o frombuffer_int16(SubSeq(bytes, 3, Len(bytes)))
frombuffer_uint8(bytes) == bytes

\* variant: 16-bit samples are divided by 32767
normalize_by_32767(a) ==
    IF a.sample_width = 2
    THEN LET v == frombuffer_int16(a.frames)
         IN [i \in 1..Len(v) |-> [num |-> v[i], den |-> 32767]]
    ELSE LET u == frombuffer_uint8(a.frames)
         IN [i \in 1..Len(u) |-> [num |-> u[i] - 128, den |-> 128]]

\* lines 52-55: the samples as fractions num / den (the float32 values are
\* these fractions exactly: den is a power of two and num has under 24 bits)
normalize(a) ==
    IF a.sample_width = 2
    THEN LET v == frombuffer_int16(a.frames)
         IN [i \in 1..Len(v) |-> [num |-> v[i], den |-> 32768]]
    ELSE LET u == frombuffer_uint8(a.frames)
         IN [i \in 1..Len(u) |-> [num |-> u[i] - 128, den |-> 128]]

\* variant: the two channel samples of a frame are added
downmix_sum(data) ==
    [i \in 1..(Len(data) \div 2) |->
        [num |-> data[2 * i - 1].num + data[2 * i].num, den |-> data[2 * i].den]]

\* line 61: audio_data.reshape(-1, 2).mean(axis=1)
downmix(data) ==
    [i \in 1..(Len(data) \div 2) |->
        [num |-> data[2 * i - 1].num + data[2 * i].num, den |-> 2 * data[2 * i].den]]

\* lines 52-61: audio_data of a file of supported format
to_audio_data(a) == IF a.channels = 2 THEN downmix(normalize(a)) ELSE normalize(a)

\* variant: the except clause of line 84 falls through to line 83
emit_result_falls_through(err, text) ==
    IF err = ""
    THEN <<Signal("progress", ProgressMarks.done), Signal("finished", text)>>
    ELSE <<Signal("error", err), Signal("finished", text)>>

\* lines 82-88: what run emits when whisper.transcribe has returned text
\* (err = "") or raised
emit_result(err, text) ==
    IF err = ""
    THEN <<Signal("progress", ProgressMarks.done), Signal("finished", text)>>
    ELSE <<Signal("error", err)>>

IdleThread ==
    /\ audio = NoAudio
    /\ tpc = "idle"
    /\ signals = <<>>
    /\ audio_data = <<>>

InitWindow ==
    /\ app = "running"
    /\ model_file_path = NoPath
    /\ vulkan_enabled = TRUE
    /\ model_loaded = FALSE
    /\ whisper = None
    /\ wctx = <<>>
    /\ transcription_thread = None
    /\ threads = [t \in 1..MaxThreads |-> NoThread]
    /\ file_btn = FALSE
    /\ recording_thread = None
    /\ recs = <<>>
    /\ depth = 0
    /\ ev = [name |-> "none", calls |-> <<>>, busy |-> {}, created |-> None,
             started |-> FALSE]

InitEngine ==
    /\ ctx = None
    /\ live = {}
    /\ last = NoCall
    /\ prev = Summary(NoCall)
    /\ run = NoRun

(***************************************************************************)
(* The parameters transcribe hands to whisper_full.  language "" stands    *)
(* for None or an empty string (the test of line 336), callback None for   *)
(* no callback (line 346).  NativeDefaults are values the library may put  *)
(* into a parameter block; of the block only the fields written at lines   *)
(* 312, 314, 337-340 and 348 are kept.                                     *)
(***************************************************************************)
Languages == {"", "ko"}
Callbacks == {None, 1, 2}
ByRef == {"by_ref2", "by_ref1"}
ConventionNames == ByRef \cup {"by_ptr"}
NativeDefaults ==
    [n_threads : {2, 4}, max_len : {0, 1}, language : {"en"}, detect_language : {FALSE},
     new_segment_callback : {None}]

\* lines 312-349 applied to the block the by-reference call filled
overrides(params, language, callback) ==
    [n_threads |-> 4,
     max_len |-> 0,
     language |-> IF language # "" THEN language ELSE params.language,
     detect_language |-> (language = ""),
     new_segment_callback |-> IF callback # None THEN callback
                              ELSE params.new_segment_callback]

\* the block whisper_full receives: byref(params) at line 353, or the block
\* behind params_ptr, as the library filled it, at line 370
full_params(convention, defaults, language, callback) ==
    IF convention \in ByRef THEN overrides(defaults, language, callback) ELSE defaults

\* self.current_callback when whisper_full is entered (lines 346-347)
callback_kept(current, convention, callback) ==
    IF convention \in ByRef /\ callback # None THEN callback ELSE current

IdleCalls == current_callback = None /\ inflight = <<>>

(***************************************************************************)
(* ModelDownloader (model_downloader.py).  start_download runs in the GUI  *)
(* thread and starts a worker thread on download_model; cancel_download    *)
(* and the slot download_finished run in the GUI thread.  The network and  *)
(* the file system are the environment: requests.get and iter_content may  *)
(* raise, the body has 0..MaxBlocks blocks, os.remove may raise.           *)
(***************************************************************************)
NoFile == [exists |-> FALSE, blocks |-> 0]
OldFile == [exists |-> TRUE, blocks |-> 1]

IdleDownloader ==
    /\ is_downloading = FALSE /\ download_btn = TRUE /\ dialog = "open"
    /\ dpc = "none" /\ content = 0 /\ model_file = NoFile
    /\ emitted = <<>> /\ delivered = 0 /\ cancelled = FALSE /\ passed = 0
    /\ downloads = 0

\* the except clause of download_model: the file is removed when it exists
\* (a failure of os.remove is swallowed), then finished(False, ...) is emitted
download_model_failed(file, removed) ==
    IF file.exists /\ removed THEN NoFile ELSE file

Init == InitEngine /\ InitWindow /\ IdleThread /\ segments = <<>> /\ IdleLoader
           /\ IdleDownloader /\ IdleCalls

LoadModel ==
    /\ \E exists \in BOOLEAN, init \in InitOutcomes(live \ {ctx}) :
        LET r == load_model(ctx, live, exists, init)
        IN  /\ ctx' = r.ctx
            /\ live' = r.live
            /\ last' = CallRecord("load_model", exists, ctx, r.ctx, r.natives, r.err, 0, <<>>)
            /\ prev' = Summary(last)
            /\ run' = NoRun
    /\ UNCHANGED <<gvars, ovars>>

FreeModel ==
    /\ LET r == free_model(ctx, live)
       IN  /\ ctx' = r.ctx
           /\ live' = r.live
           /\ last' = CallRecord("free_model", FALSE, ctx, r.ctx, r.natives,
                                 IF r.ret THEN "" ELSE "False", 0, <<>>)
           /\ prev' = Summary(last)
           /\ run' = [n |-> Min(run.n + 1, MaxRun),
                      frees |-> run.frees + Len(r.natives),
                      loaded |-> IF run.n = 0 THEN ctx # None ELSE run.loaded]
    /\ UNCHANGED <<gvars, ovars>>

Transcribe ==
    /\ \E p1 \in ParamOutcomes, p2 \in ParamOutcomes, p3 \in PtrOutcomes,
          full \in FullOutcomes, segs \in SegmentTables :
        LET r == transcribe(ctx, p1, p2, p3, full, segs)
        IN  /\ ctx' = r.ctx
            /\ live' = live \ Freed(r.natives)
            /\ last' = CallRecord("transcribe", FALSE, ctx, r.ctx, r.natives, r.err,
                                  r.code, r.text)
            /\ prev' = Summary(last)
            /\ run' = NoRun
    /\ UNCHANGED <<gvars, ovars>>

CheckModelValidity ==
    /\ \E exists \in BOOLEAN, file_size \in FileSizes :
        LET r == check_model_validity(ctx, exists, file_size)
        IN  /\ ctx' = r.ctx
            /\ live' = live \ Freed(r.natives)
            /\ last' = [size |-> file_size] @@
                        CallRecord("check_model_validity", exists, ctx, r.ctx, r.natives,
                                   r.err, 0, <<>>)
            /\ prev' = Summary(last)
            /\ run' = NoRun
    /\ UNCHANGED <<gvars, ovars>>

Next == LoadModel \/ FreeModel \/ Transcribe \/ CheckModelValidity

Spec == Init /\ [][Next]_vars

(***************************************************************************)
(* TranscriptionThread.run, one action per stretch of the method between   *)
(* two reads of the environment.  Every exception is caught at line 87 and *)
(* emitted as error.                                                       *)
(***************************************************************************)
\* lines 26-36: progress 10, the extension test, progress 20
RunStart ==
    /\ tpc = "start"
    /\ IF lower(audio.ext) # ".wav"
       THEN /\ signals' = signals \o <<Signal("progress", ProgressMarks.start),
                                       Signal("error", "WavOnly")>>
            /\ tpc' = "done"
       ELSE /\ signals' = signals \o <<Signal("progress", ProgressMarks.start),
                                       Signal("progress", ProgressMarks.wav)>>
            /\ tpc' = "read"
    /\ UNCHANGED <<dvars, cvars, evars, live, gvars, audio, audio_data, segments, lvars>>

\* lines 39-74: wave.open .. wf.close(), progress 40, the conversion,
\* progress 60; line 77: progress 80
RunLoadAudio ==
    /\ tpc = "read"
    /\ IF ~audio.readable
       THEN /\ signals' = Append(signals, Signal("error", "AudioLoadFailed"))
            /\ tpc' = "done"
            /\ audio_data' = audio_data
       ELSE IF convert(audio) # ""
       THEN /\ signals' = signals \o <<Signal("progress", ProgressMarks.read),
                                       Signal("error", convert(audio))>>
            /\ tpc' = "done"
            /\ audio_data' = audio_data
       ELSE /\ signals' = signals \o <<Signal("progress", ProgressMarks.read),
                                       Signal("progress", ProgressMarks.converted),
                                       Signal("progress", ProgressMarks.loaded)>>
            /\ tpc' = "transcribe"
            /\ audio_data' = to_audio_data(audio)
    /\ UNCHANGED <<dvars, cvars, evars, live, gvars, audio, segments, lvars>>

\* lines 80-88: whisper.transcribe, then progress 100 and finished, or error
RunTranscribe ==
    /\ tpc = "transcribe"
    /\ \E p1 \in ParamOutcomes, p2 \in ParamOutcomes, p3 \in PtrOutcomes,
          full \in FullOutcomes, segs \in SegmentTables :
        LET r == transcribe(ctx, p1, p2, p3, full, segs)
        IN  /\ ctx' = r.ctx
            /\ live' = live \ Freed(r.natives)
            /\ last' = CallRecord("transcribe", FALSE, ctx, r.ctx, r.natives, r.err,
                                  r.code, r.text)
            /\ prev' = Summary(last)
            /\ run' = NoRun
            /\ signals' = signals \o emit_result(r.err, r.text)
    /\ tpc' = "done"
    /\ UNCHANGED <<dvars, cvars, gvars, audio, audio_data, segments, lvars>>

NextThread == RunStart \/ RunLoadAudio \/ RunTranscribe

\* a started thread is scheduled, and the calls run makes return or raise
ThreadFairness == WF_vars(NextThread)

\* a thread constructed on an engine that holds a model, or holds none
InitThread ==
    /\ ctx \in {None, 1}
    /\ live = IF ctx = None THEN {} ELSE {ctx}
    /\ last = NoCall
    /\ prev = Summary(NoCall)
    /\ run = NoRun
    /\ InitWindow
    /\ audio \in AudioFiles
    /\ tpc = "start"
    /\ signals = <<>>
    /\ audio_data = <<>>
    /\ segments = <<>>
    /\ IdleLoader /\ IdleDownloader /\ IdleCalls

SpecThread == InitThread /\ [][NextThread]_vars
SpecThreadLive == InitThread /\ [][NextThread]_vars /\ ThreadFairness

(***************************************************************************)
(* WhisperDLL._get_transcription_result applied to a segment table.        *)
(***************************************************************************)
GetTranscriptionResult ==
    /\ last.op = "none"
    /\ LET r == get_transcription_result(ctx, segments)
       IN  /\ last' = CallRecord("_get_transcription_result", FALSE, ctx, ctx, r.natives,
                                 "", 0, r.text)
           /\ prev' = Summary(last)
    /\ UNCHANGED <<dvars, cvars, ctx, live, run, gvars, tvars, segments, lvars>>

NextDecode == GetTranscriptionResult

\* a loaded engine whose context holds the segments of a completed whisper_full
InitDecode ==
    /\ ctx = 1
    /\ live = {ctx}
    /\ last = NoCall
    /\ prev = Summary(NoCall)
    /\ run = NoRun
    /\ InitWindow
    /\ IdleThread
    /\ segments \in DecodeTables
    /\ IdleLoader /\ IdleDownloader /\ IdleCalls

SpecDecode == InitDecode /\ [][NextDecode]_vars

(***************************************************************************)
(* WhisperDLL.__init__, one action per stretch between two reads of the    *)
(* directory.  An exception leaves the constructor through line 227: no    *)
(* instance is created (lpc = "failed").                                   *)
(***************************************************************************)
\* lines 162-190: the attributes are set, the path of the main library resolved
Resolve ==
    /\ lpc = "resolve"
    /\ dll_path' = resolve(dll_path, files)
    /\ lpc' = IF resolve(dll_path, files) = NoPath THEN "failed" ELSE "dependencies"
    /\ UNCHANGED <<dvars, cvars, evars, live, gvars, tvars, segments, files, vulkan_support, extra_dlls,
                   acceleration_mode, dll, next_dll>>

\* lines 193-215: the iteration of the loop for the next name of ggml_dlls
LoadDependency ==
    /\ lpc = "dependencies"
    /\ next_dll <= Len(ggml_dlls(vulkan_support))
    /\ LET r == load_dependency(ggml_dlls(vulkan_support)[next_dll], files, vulkan_support,
                                extra_dlls, acceleration_mode)
       IN  /\ extra_dlls' = r.extra_dlls
           /\ acceleration_mode' = r.acceleration_mode
           /\ lpc' = IF r.raised THEN "failed" ELSE "dependencies"
    /\ next_dll' = next_dll + 1
    /\ UNCHANGED <<dvars, cvars, evars, live, gvars, tvars, segments, files, dll_path, vulkan_support, dll>>

\* line 218: ctypes.CDLL(dll_path), after the loop
LoadMain ==
    /\ lpc = "dependencies"
    /\ next_dll > Len(ggml_dlls(vulkan_support))
    /\ IF files[dll_path] \in {"loads", "nosymbols"}
       THEN dll' = "loaded" /\ lpc' = "initialize"
       ELSE dll' = dll /\ lpc' = "failed"
    /\ UNCHANGED <<dvars, cvars, evars, live, gvars, tvars, segments, files, dll_path, vulkan_support,
                   extra_dlls, acceleration_mode, next_dll>>

\* line 224: self.initialize() binds the entry points or raises
Initialize ==
    /\ lpc = "initialize"
    /\ IF files[dll_path] = "loads"
       THEN dll' = "bound" /\ lpc' = "done"
       ELSE dll' = dll /\ lpc' = "failed"
    /\ UNCHANGED <<dvars, cvars, evars, live, gvars, tvars, segments, files, dll_path, vulkan_support,
                   extra_dlls, acceleration_mode, next_dll>>

NextLoader == Resolve \/ LoadDependency \/ LoadMain \/ Initialize

\* WhisperDLL(dll_path, vulkan_support) is called in some directory
InitLoader ==
    /\ InitEngine
    /\ InitWindow
    /\ IdleThread
    /\ segments = <<>>
    /\ files \in Directories
    /\ dll_path \in {NoPath, "whisper.dll"}
    /\ vulkan_support \in BOOLEAN
    /\ extra_dlls = <<>>
    /\ acceleration_mode = "CPU"
    /\ dll = "unset"
    /\ lpc = "resolve"
    /\ next_dll = 1
    /\ IdleDownloader /\ IdleCalls

SpecLoader == InitLoader /\ [][NextLoader]_vars

(***************************************************************************)
(* RecordingThread objects driven by a caller that constructs and starts   *)
(* them with some max_duration and calls stop() at any time after start(). *)
(***************************************************************************)
StartRecording ==
    /\ Len(recs) < MaxRecordings
    /\ \E max_i \in 1..MaxIterations : recs' = Append(recs, RecordingThread(max_i))
    /\ UNCHANGED <<evars, ovars, live, app, model_file_path, vulkan_enabled, model_loaded,
                   whisper, wctx, transcription_thread, threads, file_btn, recording_thread,
                   depth, ev>>

StopRecording(r) ==
    /\ ~recs[r].stopped
    /\ recs' = stop(recs, r)
    /\ UNCHANGED <<evars, ovars, live, app, model_file_path, vulkan_enabled, model_loaded,
                   whisper, wctx, transcription_thread, threads, file_btn, recording_thread,
                   depth, ev>>

NextRecording ==
    \/ StartRecording
    \/ \E r \in 1..Len(recs) : RecordingRun(r)
    \/ \E r \in 1..Len(recs) : RecordingLoop(r)
    \/ \E r \in 1..Len(recs) : StopRecording(r)

SpecRecording == Init /\ [][NextRecording]_vars

\* start_download: returns when a download is running; an existing file is
\* overwritten only when the user answers Yes
start_download ==
    /\ dialog = "open" /\ download_btn
    /\ ~is_downloading
    /\ downloads < MaxDownloads
    /\ is_downloading' = TRUE
    /\ download_btn' = FALSE
    /\ dpc' = "get"
    /\ content' \in 0..MaxBlocks
    /\ emitted' = <<>> /\ delivered' = 0 /\ cancelled' = FALSE /\ passed' = 0
    /\ downloads' = downloads + 1
    /\ UNCHANGED <<evars, live, gvars, tvars, segments, lvars, cvars, dialog, model_file>>

\* download_model up to the with statement: requests.get and
\* raise_for_status, then open(model_path, 'wb')
DownloadGet ==
    /\ dpc = "get"
    /\ \E ok \in BOOLEAN, removed \in BOOLEAN :
          IF ok
          THEN /\ model_file' = [exists |-> TRUE, blocks |-> 0]
               /\ dpc' = "check"
               /\ UNCHANGED emitted
          ELSE /\ model_file' = download_model_failed(model_file, removed)
               /\ emitted' = Append(emitted, FALSE)
               /\ dpc' = "end"
    /\ UNCHANGED <<evars, live, gvars, tvars, segments, lvars, cvars, is_downloading,
                   download_btn, dialog, content, delivered, cancelled, passed, downloads>>

\* the head of the for loop: iter_content yields the next block, raises, or
\* is exhausted; a block yielded is followed by the cancellation check
DownloadCheck ==
    /\ dpc = "check"
    /\ \E raised \in BOOLEAN, removed \in BOOLEAN :
          IF raised \/ (content > 0 /\ ~is_downloading)
          THEN /\ model_file' = download_model_failed(model_file, removed)
               /\ emitted' = Append(emitted, FALSE)
               /\ dpc' = "end"
               /\ UNCHANGED passed
          ELSE IF content > 0
          THEN /\ dpc' = "write"
               /\ passed' = IF cancelled THEN passed + 1 ELSE passed
               /\ UNCHANGED <<model_file, emitted>>
          ELSE /\ emitted' = Append(emitted, TRUE)
               /\ dpc' = "end"
               /\ UNCHANGED <<model_file, passed>>
    /\ UNCHANGED <<evars, live, gvars, tvars, segments, lvars, cvars, is_downloading,
                   download_btn, dialog, content, delivered, cancelled, downloads>>

\* f.write(data) and the progress signals
DownloadWrite ==
    /\ dpc = "write"
    /\ model_file' = [model_file EXCEPT !.blocks = @ + 1]
    /\ content' = content - 1
    /\ dpc' = "check"
    /\ UNCHANGED <<evars, live, gvars, tvars, segments, lvars, cvars, is_downloading,
                   download_btn, dialog, emitted, delivered, cancelled, passed, downloads>>

cancel_download ==
    /\ dialog = "open"
    /\ ~download_btn
    /\ is_downloading
    /\ is_downloading' = FALSE
    /\ cancelled' = (dpc # "end")
    /\ UNCHANGED <<evars, live, gvars, tvars, segments, lvars, cvars, download_btn, dialog,
                   dpc, content, model_file, emitted, delivered, passed, downloads>>

\* the slot of signals.finished
download_finished ==
    /\ delivered < Len(emitted)
    /\ delivered' = delivered + 1
    /\ is_downloading' = FALSE
    /\ download_btn' = TRUE
    /\ dialog' = IF emitted[delivered + 1] THEN "accepted" ELSE dialog
    /\ dpc' = "none"
    /\ UNCHANGED <<evars, live, gvars, tvars, segments, lvars, cvars, content, model_file,
                   emitted, cancelled, passed, downloads>>

NextDownload ==
    \/ start_download
    \/ DownloadGet
    \/ DownloadCheck
    \/ DownloadWrite
    \/ cancel_download
    \/ download_finished

InitDownload ==
    /\ InitEngine /\ InitWindow /\ IdleThread /\ segments = <<>> /\ IdleLoader
    /\ IdleCalls
    /\ is_downloading = FALSE /\ download_btn = TRUE /\ dialog = "open"
    /\ dpc = "none" /\ content = 0 /\ model_file \in {NoFile, OldFile}
    /\ emitted = <<>> /\ delivered = 0 /\ cancelled = FALSE /\ passed = 0
    /\ downloads = 0

SpecDownload == InitDownload /\ [][NextDownload]_vars

(***************************************************************************)
(* transcribe called from several threads on one loaded WhisperDLL.  A     *)
(* call is split at whisper_full, which runs without the interpreter lock: *)
(* TranscribeEnter is the call up to the entry of whisper_full (a call     *)
(* that fails before it assigns nothing), TranscribeReturn the return of   *)
(* whisper_full and the rest of the call.  The call history of             *)
(* specification Spec is not kept here.                                    *)
(***************************************************************************)
TranscribeEnter ==
    /\ ctx # None
    /\ Len(inflight) < MaxCalls
    /\ \E convention \in ConventionNames, defaults \in NativeDefaults,
          language \in Languages, callback \in Callbacks :
          /\ current_callback' = callback_kept(current_callback, convention, callback)
          /\ inflight' = Append(inflight,
                  [convention |-> convention, language |-> language,
                   callback |-> callback,
                   params |-> full_params(convention, defaults, language, callback)])
    /\ UNCHANGED <<evars, live, gvars, tvars, segments, lvars, dvars>>

TranscribeReturn(k) ==
    /\ inflight' = [i \in 1..(Len(inflight) - 1) |-> IF i < k THEN inflight[i] ELSE inflight[i + 1]]
    /\ UNCHANGED <<evars, live, gvars, tvars, segments, lvars, dvars, current_callback>>

NextCalls ==
    \/ TranscribeEnter
    \/ \E k \in 1..Len(inflight) : TranscribeReturn(k)

InitCalls ==
    /\ ctx = 1 /\ live = {1} /\ last = NoCall /\ prev = Summary(NoCall) /\ run = NoRun
    /\ InitWindow /\ IdleThread /\ segments = <<>> /\ IdleLoader /\ IdleDownloader
    /\ IdleCalls

SpecCalls == InitCalls /\ [][NextCalls]_vars

NextGUI ==
    \/ OnDeviceSelected
    \/ OnModelSelected
    \/ SelectAudioFile
    \/ TranscribeAudioResume
    \/ ToggleRecording
    \/ \E r \in 1..Len(recs) : RecordingRun(r)
    \/ \E r \in 1..Len(recs) : RecordingLoop(r)
    \/ \E r \in 1..Len(recs) : OnRecordingFinished(r)
    \/ CloseEvent

SpecGUI == Init /\ [][NextGUI]_vars

TypeOK ==
    /\ ctx \in Handles \cup {None}
    /\ live \subseteq Handles
    /\ last.op \in {"none", "load_model", "free_model", "transcribe",
                  "_get_transcription_result", "check_model_validity"}
    /\ run.n \in 0..MaxRun
    /\ app \in {"running", "closed", "aborted"}
    /\ model_file_path \in ModelPaths \cup {NoPath}
    /\ whisper \in 0..Len(wctx)
    /\ Len(wctx) <= MaxInstances
    /\ \A w \in 1..Len(wctx) : wctx[w] \in Handles \cup {None}
    /\ transcription_thread \in 0..MaxThreads
    /\ recording_thread \in 0..Len(recs)
    /\ Len(recs) <= MaxRecordings
    /\ depth \in 0..MaxDepth
    /\ tpc \in {"idle", "start", "read", "transcribe", "done"}
    /\ \A i \in 1..Len(signals) : signals[i].sig \in TranscriptionThreadSignals
    /\ Len(segments) <= MaxSegments
    /\ lpc \in {"idle", "resolve", "dependencies", "initialize", "done", "failed"}
    /\ acceleration_mode \in {"CPU", "Vulkan GPU"}
    /\ dll \in {"unset", "loaded", "bound"}
    /\ Range(extra_dlls) \subseteq DependencyNames
    /\ next_dll \in 1..(Len(ggml_dlls(TRUE)) + 1)
    /\ current_callback \in Callbacks
    /\ Len(inflight) <= MaxCalls
    /\ \A k \in 1..Len(inflight) : inflight[k].convention \in ConventionNames
    /\ is_downloading \in BOOLEAN /\ download_btn \in BOOLEAN
    /\ dialog \in {"open", "accepted"}
    /\ dpc \in {"none", "get", "check", "write", "end"}
    /\ content \in 0..MaxBlocks
    /\ model_file.exists \in BOOLEAN /\ model_file.blocks \in 0..MaxBlocks
    /\ Len(emitted) <= 1 /\ delivered \in 0..Len(emitted)
    /\ passed \in 0..MaxBlocks /\ downloads \in 0..MaxDownloads

(***************************************************************************)
(* Properties of the WhisperDLL instance (specification Spec).             *)
(***************************************************************************)
IsFree(n) == n.fn = "whisper_free"
IsInit(n) == n.fn = "whisper_init_from_file"
IsFull(n) == n.fn = "whisper_full"
IsSegmentQuery(n) ==
    n.fn \in {"whisper_full_n_segments", "whisper_full_get_segment_text",
              "whisper_full_get_segment_t0", "whisper_full_get_segment_t1"}
Calls(rec, P(_)) == {i \in 1..Len(rec.natives) : P(rec.natives[i])}

C4_ReloadFreesOnce ==
    (prev.op = "load_model" /\ prev.err = "" /\ last.op = "load_model" /\ last.err = "")
        => /\ prev.ctx1 # None
           /\ last.ctx0 = prev.ctx1
           /\ last.natives = << NativeCall("whisper_free", prev.ctx1, 0, FALSE),
                                NativeCall("whisper_init_from_file", last.ctx1, 0, FALSE) >>

C4_Witness ==
    /\ prev.op = "load_model" /\ prev.err = ""
    /\ last.op = "load_model" /\ last.err = "" /\ last.exists

C6_NotLoaded ==
    (last.op = "transcribe" /\ last.ctx0 = None)
        => last.err = "NotLoaded" /\ last.natives = <<>> /\ last.text = <<>>

C6_Witness == last.op = "transcribe" /\ last.ctx0 = None /\ prev.op = "free_model"

C9_NativeCallFailed ==
    last.op = "transcribe"
        => \A i \in Calls(last, IsFull) :
              (~last.natives[i].raised /\ last.natives[i].a # 0)
                 => /\ last.err = "NativeCallFailed"
                    /\ last.code = last.natives[i].a
                    /\ last.text = <<>>
                    /\ Calls(last, IsSegmentQuery) = {}
                    /\ i = Len(last.natives)

\* whisper_full failed on the pointer path
C9_Witness ==
    /\ last.op = "transcribe"
    /\ \E i \in 1..Len(last.natives) : last.natives[i].fn = "whisper_full_default_params"
    /\ \E i \in Calls(last, IsFull) : ~last.natives[i].raised /\ last.natives[i].a # 0

(***************************************************************************)
(* Properties of the main window (specification SpecGUI).                  *)
(***************************************************************************)
Running(w) == {t \in 1..MaxThreads : threads[t].st = "running" /\ threads[t].w = w}
LoadCalls(e) == {i \in 1..Len(e.calls) : e.calls[i].op = "load_model"}

C10_StartAfterLoad ==
    /\ ev.created # None
          => /\ whisper # None
             /\ threads[ev.created].w = whisper
             /\ wctx[whisper] # None
             /\ model_loaded
             /\ \A i \in LoadCalls(ev) : ev.calls[i].err = ""
    /\ (\E i \in LoadCalls(ev) : ev.calls[i].err # "")
          => ev.created = None /\ ~ev.started
    /\ ev.started => ev.created # None

\* load_model failed in transcribe_audio and the request ended without a thread
C10_Witness ==
    /\ ev.name = "transcribe_audio"
    /\ \E i \in LoadCalls(ev) : ev.calls[i].err # ""
    /\ ev.created = None

(***************************************************************************)
(* Frame of transcribe (specification Spec).                               *)
(***************************************************************************)
\* C11: a transcribe call on a loaded engine leaves it loaded, whether it
\* returns a transcript or raises: ctx holds the handle it held before the
\* call, that handle is still the one live native context, and the call made
\* neither whisper_init_from_file nor whisper_free.
C11_TranscribeKeepsLoaded ==
    (last.op = "transcribe" /\ last.ctx0 # None) =>
        /\ last.ctx1 = last.ctx0
        /\ ctx = last.ctx0
        /\ live = {last.ctx0}
        /\ Calls(last, IsInit) = {}
        /\ Calls(last, IsFree) = {}

\* a transcribe call on a loaded engine that raised after whisper_full failed
C11_Witness ==
    /\ last.op = "transcribe"
    /\ last.ctx0 # None
    /\ last.err = "NativeCallFailed"
    /\ Calls(last, IsFull) # {}

Emitted(sig) == {i \in 1..Len(signals) : signals[i].sig = sig}
IsWavInput == lower(audio.ext) = ".wav" /\ audio.readable

\* C13: in one run every progress value emitted before whisper.transcribe has
\* returned a transcript is at most 95, however many segments the engine
\* reports; a value above 95 is the value 100, emitted once, after the
\* transcribe call returned without an error and after every other value.
C13_ProgressBelowCap ==
    \A i \in Emitted("progress") :
        signals[i].v > 95 =>
            /\ signals[i].v = 100
            /\ last.op = "transcribe"
            /\ last.err = ""
            /\ \E k \in Calls(last, IsFull) :
                  ~last.natives[k].raised /\ last.natives[k].a = 0
            /\ \A j \in Emitted("progress") : j # i => (j < i /\ signals[j].v <= 95)

\* a run that ended with progress 100 after a transcript of two segments
C13_Witness ==
    /\ tpc = "done"
    /\ \E i \in Emitted("progress") : signals[i].v = 100
    /\ last.op = "transcribe"
    /\ Cardinality(Calls(last, IsSegmentQuery)) > 4

\* C20: for a WAV input whose channel count is not 1 or 2 or whose sample
\* width is not 1 or 2 bytes, the run makes no transcribe call on the engine
\* and never emits finished, and when it has ended it has emitted error
\* once, with the unsupported-audio-format error.
C20_UnsupportedFormat ==
    (IsWavInput /\ (audio.channels \notin {1, 2} \/ audio.sample_width \notin {1, 2})) =>
        /\ last = NoCall
        /\ Emitted("finished") = {}
        /\ tpc = "done" =>
              /\ Cardinality(Emitted("error")) = 1
              /\ signals[Len(signals)] = Signal("error", "UnsupportedAudioFormat")

\* a run on a 16-bit WAV file of three channels has ended
C20_Witness ==
    /\ tpc = "done"
    /\ IsWavInput
    /\ audio.sample_width = 2
    /\ audio.channels = 3
    /\ Emitted("error") # {}

(***************************************************************************)
(* Properties of the decoder (specification SpecDecode).                   *)
(***************************************************************************)
Decoded == last.op = "_get_transcription_result"
HasText(seg) == seg.text # <<>>
WithText(segs) == SelectSeq(segs, HasText)
Entry(seg) == time_str(seg.t0, seg.t1) \o <<" ">> \o decode(seg.text)
RECURSIVE Join(_)
Join(entries) ==
    IF entries = <<>> THEN <<>>
    ELSE IF Len(entries) = 1 THEN entries[1]
    ELSE entries[1] \o <<"\n">> \o Join(Tail(entries))
Entries(segs) == [i \in 1..Len(segs) |-> Entry(segs[i])]
\* the lines of a string (none for the empty string)
RECURSIVE SplitLines(_, _)
SplitLines(str, cur) ==
    IF str = <<>> THEN <<cur>>
    ELSE IF Head(str) = "\n" THEN <<cur>> \o SplitLines(Tail(str), <<>>)
    ELSE SplitLines(Tail(str), Append(cur, Head(str)))
LinesOf(str) == IF str = <<>> THEN <<>> ELSE SplitLines(str, <<>>)
StartsWith(str, pre) == Len(str) >= Len(pre) /\ SubSeq(str, 1, Len(pre)) = pre
OneLineTexts(segs) == \A i \in 1..Len(segs) : \A k \in 1..Len(segs[i].text) : segs[i].text[k] # "\n"

\* C14 as stated: the transcript has exactly one line per segment index, in
\* index order, whatever the text of the segment (null and empty included).
C14_Original ==
    Decoded =>
        /\ Len(LinesOf(last.text)) = Len(segments)
        /\ \A i \in 1..Len(segments) :
              StartsWith(LinesOf(last.text)[i], time_str(segments[i].t0, segments[i].t1))

\* C14 (amended): for every segment count and segment table the transcript is
\* made of exactly one entry "<start> -> <end> <text>" per segment whose text
\* is neither null nor empty, in index order, and a segment with a null or
\* empty text contributes nothing; when no text holds a line break the
\* transcript has exactly one line per such segment, in index order.
C14_OneEntryPerTextSegment ==
    Decoded =>
        /\ last.text = rstrip(Join(Entries(WithText(segments))))
        /\ OneLineTexts(segments) =>
              /\ Len(LinesOf(last.text)) = Len(WithText(segments))
              /\ \A i \in 1..Len(WithText(segments)) :
                    StartsWith(LinesOf(last.text)[i],
                               time_str(WithText(segments)[i].t0, WithText(segments)[i].t1))

\* a table of two segments, the first with an empty text, has been decoded
C14_Witness ==
    /\ Decoded
    /\ Len(segments) = 2
    /\ segments[1].text = <<>>
    /\ segments[2].text # <<>>
    /\ Len(LinesOf(last.text)) = 1

AllHaveText(segs) == \A i \in 1..Len(segs) : HasText(segs[i])
HelloWorld ==
    << [text |-> <<"h", "e", "l", "l", "o">>, t0 |-> 0, t1 |-> 150],
       [text |-> <<"w", "o", "r", "l", "d">>, t0 |-> 150, t1 |-> 300] >>
HelloWorldTranscript ==
        <<"0", "0", ":", "0", "0", ":", "0", "0", " ", "-", ">", " ", "0", "0", ":", "0", "0", ":", "0", "1", " ", "h", "e", "l", "l", "o", "\n">>
        \o <<"0", "0", ":", "0", "0", ":", "0", "1", " ", "-", ">", " ", "0", "0", ":", "0", "0", ":", "0", "3", " ", "w", "o", "r", "l", "d">>

\* C15 as stated: for a segment list with non-empty texts the transcript is
\* the lines "<start> -> <end> <text>" joined by single newlines, in index
\* order, with no trailing newline.
C15_Original ==
    (Decoded /\ AllHaveText(segments)) => last.text = Join(Entries(segments))

\* C15 (amended): for a segment list with non-empty texts the transcript is
\* the lines "<start> -> <end> <text>" joined by single newlines, in index
\* order, with the whitespace at the end of the last line removed: it ends
\* with no newline and no blank, it equals the joined lines when the last
\* text ends with no whitespace, and the two segments ("hello", 0, 150),
\* ("world", 150, 300) decode to
\* "00:00:00 -> 00:00:01 hello\n00:00:01 -> 00:00:03 world".
C15_JoinedLinesTrimmed ==
    (Decoded /\ AllHaveText(segments)) =>
        /\ last.text = rstrip(Join(Entries(segments)))
        /\ last.text # <<>> => last.text[Len(last.text)] \notin Whitespace
        /\ (segments # <<>> /\ Entry(segments[Len(segments)]) = rstrip(Entry(segments[Len(segments)])))
              => last.text = Join(Entries(segments))
        /\ segments = HelloWorld => last.text = HelloWorldTranscript

\* the two segments hello and world have been decoded
C15_Witness ==
    /\ Decoded
    /\ segments = HelloWorld
    /\ last.text = HelloWorldTranscript

\* the timestamps of the first line of a transcript
FirstBlank(str) == CHOOSE i \in 1..Len(str) : str[i] = " " /\ \A j \in 1..(i - 1) : str[j] # " "
StartStamp(str) == SubSeq(str, 1, FirstBlank(str) - 1)
AfterArrow(str) == SubSeq(str, FirstBlank(str) + 4, Len(str))
EndStamp(str) == StartStamp(AfterArrow(str))
DigitValue(ch) == CHOOSE d \in 0..9 : Digit(d) = ch
RECURSIVE Value(_)
Value(digits) ==
    IF digits = <<>> THEN 0
    ELSE 10 * Value(SubSeq(digits, 1, Len(digits) - 1)) + DigitValue(digits[Len(digits)])
IsDigits(str) == \A i \in 1..Len(str) : \E d \in 0..9 : Digit(d) = str[i]
\* st is hours:minutes:seconds of t ticks, each field of two digits (the
\* hours of more when they exceed 99)
IsStampOf(st, t) ==
    LET n == Len(st)
        s == t \div 100
        hh == SubSeq(st, 1, n - 6)
        mm == SubSeq(st, n - 4, n - 3)
        ss == SubSeq(st, n - 1, n)
    IN  /\ n >= 8
        /\ st[n - 5] = ":" /\ st[n - 2] = ":"
        /\ IsDigits(hh) /\ IsDigits(mm) /\ IsDigits(ss)
        /\ Len(hh) = 2 \/ hh[1] # "0"
        /\ Value(hh) = s \div 3600
        /\ Value(mm) = (s % 3600) \div 60
        /\ Value(ss) = s % 60
        /\ Value(mm) \in 0..59 /\ Value(ss) \in 0..59

\* C16: the timestamp of a tick value t >= 0 is formed from s = t div 100 as
\* hours s div 3600, minutes (s mod 3600) div 60 and seconds s mod 60, each
\* zero-padded to two digits, minutes and seconds in 0..59; 360000 gives
\* 01:00:00, 0 gives 00:00:00 and 61 gives 00:00:00.
C16_Timestamp ==
    (Decoded /\ segments # <<>> /\ HasText(segments[1])) =>
        LET t0 == segments[1].t0
            t1 == segments[1].t1
            start == StartStamp(last.text)
            end == EndStamp(last.text)
        IN  /\ t0 >= 0 /\ t1 >= 0
            /\ IsStampOf(start, t0)
            /\ IsStampOf(end, t1)
            /\ SubSeq(last.text, FirstBlank(last.text), FirstBlank(last.text) + 3)
                   = <<" ", "-", ">", " ">>
            /\ t0 = 360000 => start = <<"0", "1", ":", "0", "0", ":", "0", "0">>
            /\ t0 = 0 => start = <<"0", "0", ":", "0", "0", ":", "0", "0">>
            /\ t0 = 61 => start = <<"0", "0", ":", "0", "0", ":", "0", "0">>

\* a segment that starts at tick 360000 has been decoded
C16_Witness ==
    /\ Decoded
    /\ segments # <<>>
    /\ HasText(segments[1])
    /\ segments[1].t0 = 360000
    /\ StartStamp(last.text) = <<"0", "1", ":", "0", "0", ":", "0", "0">>

(***************************************************************************)
(* check_model_validity (specification Spec).                              *)
(***************************************************************************)
\* C17: check_model_validity fails with NotFound when the file is missing,
\* fails with TooSmall when the file exists and is smaller than 1024 bytes,
\* and succeeds for every existing file of 1024 bytes or more; in each case
\* the engine is as before: ctx holds what it held, the live contexts are
\* unchanged and no native entry point was called.
C17_CheckModelValidity ==
    last.op = "check_model_validity" =>
        /\ ~last.exists => last.err = "NotFound"
        /\ (last.exists /\ last.size < 1024) => last.err = "TooSmall"
        /\ (last.exists /\ last.size >= 1024) => last.err = ""
        /\ last.ctx1 = last.ctx0
        /\ ctx = last.ctx0
        /\ live = IF last.ctx0 = None THEN {} ELSE {last.ctx0}
        /\ last.natives = <<>>

\* a file of 1023 bytes was rejected while a model was loaded
C17_Witness ==
    /\ last.op = "check_model_validity"
    /\ last.exists
    /\ last.size = 1023
    /\ last.err = "TooSmall"
    /\ ctx # None

(***************************************************************************)
(* Properties of the constructor (specification SpecLoader).               *)
(***************************************************************************)
Loads(name) == files[name] = "loads"

\* C18: when the loader has finished, the recorded acceleration mode is the
\* GPU mode if and only if acceleration was requested, the file
\* ggml-vulkan.dll is present and its load succeeded; in every other case
\* (not requested, file absent, load raised) the mode is CPU.
C18_AccelerationMode ==
    lpc = "done" =>
        /\ acceleration_mode \in {"CPU", "Vulkan GPU"}
        /\ acceleration_mode = "Vulkan GPU" <=>
              (vulkan_support /\ files["ggml-vulkan.dll"] # "absent"
                 /\ files["ggml-vulkan.dll"] # "bad")
        /\ acceleration_mode = "Vulkan GPU" => "ggml-vulkan.dll" \in Range(extra_dlls)

\* the loader finished in GPU mode
C18_Witness ==
    /\ lpc = "done"
    /\ vulkan_support
    /\ acceleration_mode = "Vulkan GPU"

\* C19: whichever dependency libraries are absent or fail to load, the
\* loader goes on to load the main library and to bind its entry points: it
\* fails only when the main library is not found, does not load or lacks an
\* entry point, and once the loop over the dependencies has ended the list
\* of loaded dependencies holds exactly those that loaded, in the load order.
C19_DependencyFailuresTolerated ==
    /\ lpc = "failed" =>
          \/ dll_path = NoPath
          \/ (next_dll > Len(ggml_dlls(vulkan_support)) /\ files[dll_path] # "loads")
    /\ (lpc \in {"initialize", "done"} \/ (lpc = "failed" /\ dll_path # NoPath)) =>
          extra_dlls = SelectSeq(ggml_dlls(vulkan_support), Loads)
    /\ lpc = "done" => dll = "bound"
    /\ (lpc = "dependencies" /\ dll_path # NoPath) =>
          extra_dlls = SelectSeq(SubSeq(ggml_dlls(vulkan_support), 1, next_dll - 1), Loads)

\* the loader finished although one dependency was absent and one failed to
\* load, and it recorded the others
C19_Witness ==
    /\ lpc = "done"
    /\ dll = "bound"
    /\ files["ggml.dll"] = "bad"
    /\ files["ggml-base.dll"] = "absent"
    /\ extra_dlls = <<"ggml-cpu.dll", "ggml-vulkan.dll">>

(***************************************************************************)
(* The sample buffer of TranscriptionThread.run (specification SpecThread) *)
(***************************************************************************)
Converted == tpc \in {"transcribe", "done"} /\ IsWavInput /\ convert(audio) = ""
\* the value of byte pair k of the file as a signed 16-bit sample, and of
\* byte k as an unsigned 8-bit sample
Sample16(k) ==
    LET u == audio.frames[2 * k - 1] + 256 * audio.frames[2 * k]
    IN  IF u >= 32768 THEN u - 65536 ELSE u
Sample8(k) == audio.frames[k]
\* sample k of the file as a fraction of the full scale, times 32768
Scaled(k) == IF audio.sample_width = 2 THEN Sample16(k) ELSE 256 * (Sample8(k) - 128)
\* a fraction whose denominator divides 65536, times 65536
Sixteenths(x) == x.num * (65536 \div x.den)
SamplesInFile == Len(audio.frames) \div audio.sample_width

\* C21: for a WAV input of 1 or 2 channels and 1 or 2 bytes per sample,
\* every sample of the buffer run builds lies in [-1.0, 1.0]: a 16-bit
\* sample v becomes v / 32768, an 8-bit sample u becomes (u - 128) / 128,
\* and for two channels each value of the buffer is the mean of the two
\* channel samples of a frame.
C21_SamplesInRange ==
    Converted =>
        /\ Len(audio_data) = SamplesInFile \div audio.channels
        /\ \A i \in 1..Len(audio_data) :
              /\ audio_data[i].den > 0
              /\ -audio_data[i].den <= audio_data[i].num
              /\ audio_data[i].num <= audio_data[i].den
              /\ 65536 % audio_data[i].den = 0
              /\ audio.channels = 1 => Sixteenths(audio_data[i]) = 2 * Scaled(i)
              /\ audio.channels = 2 =>
                    Sixteenths(audio_data[i]) = Scaled(2 * i - 1) + Scaled(2 * i)

\* a 16-bit stereo frame holding the two extreme samples has been converted
C21_Witness ==
    /\ Converted
    /\ audio.sample_width = 2
    /\ audio.channels = 2
    /\ Len(audio_data) = 1
    /\ Sample16(1) = -32768
    /\ Sample16(2) = 32767

(***************************************************************************)
(* Stopping a RecordingThread (specification SpecRecording).               *)
(***************************************************************************)
\* C22: once stop() has been called on a started RecordingThread, the capture
\* loop reads at most one further chunk and ends at its next test of the
\* flag instead of running to the maximum duration, and the thread emits
\* finished exactly once, with the path of the recorded file.
C22_StopEndsCapture ==
    \A r \in 1..Len(recs) :
        recs[r].stopped =>
            /\ recs[r].after <= 1
            /\ recs[r].pc = "loop" => ~recs[r].is_recording
            /\ Len(recs[r].finished) <= 1
            /\ recs[r].pc = "emitted" =>
                  (recs[r].temp_file # None /\ recs[r].finished = <<recs[r].temp_file>>)

C22_Witness ==
    \E r \in 1..Len(recs) :
        recs[r].stopped /\ recs[r].pc = "emitted" /\ recs[r].after = MaxIterations

(***************************************************************************)
(* Cancelling a download (specification SpecDownload).                     *)
(***************************************************************************)
\* C23: when cancel_download is invoked while a download is in progress, the
\* worker passes no further cancellation check, the outcome it reports is
\* finished with success = false, and no file is left at the model path.
C23_CancelAborts ==
    cancelled =>
        /\ passed = 0
        /\ dpc \in {"end", "none"} => (emitted = <<FALSE>> /\ ~model_file.exists)

\* a download cancelled after its last block passed the check reports success
C23_Witness ==
    cancelled /\ dpc = "end" /\ emitted = <<TRUE>> /\ model_file.blocks = MaxBlocks

(***************************************************************************)
(* The default-parameter conventions of transcribe (specification Spec).   *)
(***************************************************************************)
IsDefaultParams(n) ==
    n.fn \in {"whisper_full_default_params_by_ref", "whisper_full_default_params"}
\* the three conventions in the order of lines 300, 303 and 306
Conventions ==
    << [fn |-> "whisper_full_default_params_by_ref", a |-> 2],
       [fn |-> "whisper_full_default_params_by_ref", a |-> 1],
       [fn |-> "whisper_full_default_params", a |-> 0] >>

\* C24: in every transcribe call the conventions are attempted in the order
\* by-reference with strategy, by-reference without strategy, pointer
\* returning; a later one is attempted only after every earlier one failed
\* (and is attempted then), all of them before whisper_full; and when the
\* pointer-returning call yields NULL the call fails without whisper_full.
C24_ConventionOrder ==
    last.op = "transcribe" =>
        LET d == SelectSeq(last.natives, IsDefaultParams)
        IN  /\ Len(d) <= Len(Conventions)
            /\ last.ctx0 # None => Len(d) >= 1
            /\ \A i \in 1..Len(d) :
                  /\ d[i].fn = Conventions[i].fn /\ d[i].a = Conventions[i].a
                  /\ last.natives[i] = d[i]
                  /\ i < Len(d) => d[i].raised
                  /\ (d[i].raised /\ i < Len(Conventions)) => i < Len(d)
            /\ last.err = "NullParams" =>
                  (Len(d) = Len(Conventions) /\ Calls(last, IsFull) = {})

\* both by-reference calls failed and the pointer-returning call gave NULL
C24_Witness ==
    /\ last.op = "transcribe" /\ last.err = "NullParams"
    /\ Len(last.natives) = Len(Conventions)

(***************************************************************************)
(* Parameters and callback of the native call (specification SpecCalls).   *)
(***************************************************************************)
\* C25: for every transcribe call that reaches whisper_full, whichever
\* convention produced the default parameters, the parameters passed carry
\* thread count 4, max segment length 0 (unrestricted), and the language
\* pinned to the requested code with autodetect off when a language was
\* given, autodetect on when none was given.
C25_PolicyOverrides ==
    \A k \in 1..Len(inflight) :
        /\ inflight[k].params.n_threads = 4
        /\ inflight[k].params.max_len = 0
        /\ inflight[k].language # "" =>
              (inflight[k].params.language = inflight[k].language
               /\ ~inflight[k].params.detect_language)
        /\ inflight[k].language = "" => inflight[k].params.detect_language

\* a call through the pointer-returning convention, with a language, is
\* inside whisper_full with the defaults of the library
C25_Witness ==
    \E k \in 1..Len(inflight) :
        /\ inflight[k].convention = "by_ptr" /\ inflight[k].language = "ko"
        /\ inflight[k].params.language = "en" /\ inflight[k].params.n_threads = 2

\* C26: for every transcribe call that was given a new-segment callback,
\* the instance holds that callback in current_callback from before
\* whisper_full starts until it returns, whatever other calls on the
\* instance run meanwhile.
C26_CallbackHeld ==
    \A k \in 1..Len(inflight) :
        inflight[k].callback # None => current_callback = inflight[k].callback

\* a by-reference call with callback 1 is inside whisper_full while a later
\* call has put callback 2 in its place
C26_Witness ==
    /\ Len(inflight) = 2
    /\ inflight[1].convention \in ByRef /\ inflight[1].callback = 1
    /\ inflight[2].convention \in ByRef /\ inflight[2].callback = 2
    /\ current_callback = 2

(***************************************************************************)
(* Starting the worker of a transcription request (specification SpecGUI). *)
(***************************************************************************)
\* C27: whenever transcribe_audio runs with a model selected and the library
\* initialisation and the model load succeed (the handler constructs a
\* TranscriptionThread), the window wires the signals of the worker and
\* starts it; only a started worker can deliver on_transcription_finished or
\* on_transcription_error for the request.
C27_RequestStartsWorker ==
    ev.created # None =>
        /\ ev.started
        /\ threads[ev.created].st = "running"
        /\ app # "aborted"

\* the model was loaded in the request and the worker built for it was
\* never started
C27_Witness ==
    /\ ev.name = "transcribe_audio"
    /\ LoadCalls(ev) # {} /\ \A i \in LoadCalls(ev) : ev.calls[i].err = ""
    /\ ev.created # None /\ ~ev.started
    /\ threads[ev.created].st = "created"

(***************************************************************************)
(* The result of a TranscriptionThread run (specification SpecThreadLive). *)
(***************************************************************************)
IsResult(s) == s.sig \in {"finished", "error"}
Results == {i \in 1..Len(signals) : IsResult(signals[i])}
IsHundred(s) == s.sig = "progress" /\ s.v = ProgressMarks.done
\* no result before run ends and exactly one, emitted last, when it has
\* ended; finished directly after progress 100, error without any 100
OneResult ==
    /\ Cardinality(Results) = (IF tpc = "done" THEN 1 ELSE 0)
    /\ \A i \in Results :
          /\ i = Len(signals)
          /\ signals[i].sig = "finished" => (i > 1 /\ IsHundred(signals[i - 1]))
          /\ signals[i].sig = "error" => \A j \in 1..Len(signals) : ~IsHundred(signals[j])

\* C28: every run of a TranscriptionThread terminates, and it emits exactly
\* one of finished and error, never both and never neither; finished is
\* emitted only after progress 100, and a run that emits error has emitted
\* no progress 100.
C28_RunEmitsOneResult == []OneResult /\ <>(tpc = "done")

\* transcribe raised after the audio was loaded (progress 80) and the run
\* ended with error
C28_Witness ==
    /\ tpc = "done" /\ last.op = "transcribe" /\ last.err # ""
    /\ signals[Len(signals)].sig = "error"
    /\ signals[Len(signals) - 1].sig = "progress"
    /\ signals[Len(signals) - 1].v = ProgressMarks.loaded

(***************************************************************************)
(* The model_loaded flag of the window (specification SpecGUI).            *)
(***************************************************************************)
\* the WhisperDLL instance of the window exists and holds a non-null ctx
HoldsModel == whisper # None /\ wctx[whisper] # None

Unfinished == {r \in 1..Len(recs) : recs[r].pc \in {"new", "loop"}}

\* C30: whatever the sequence of clicks on the record button, at most one
\* RecordingThread is capturing at any time: while a recording has been
\* started and has not finished, a click stops it and no second
\* RecordingThread is started.
C30_OneRecording == Cardinality(Unfinished) <= 1

\* two RecordingThreads are in their capture loops with the flag set
C30_Witness ==
    \E r1, r2 \in 1..Len(recs) :
        /\ r1 # r2
        /\ recs[r1].pc = "loop" /\ recs[r1].is_recording
        /\ recs[r2].pc = "loop" /\ recs[r2].is_recording
====
